---- MODULE Spec2Model ----
(***************************************************************************)
(* Model of RayTracingApplication (src/src/application.cpp,                *)
(* src/include/application.h) and of main (src/src/main.cpp): adapter      *)
(* selection, queue family resolution, presentation configuration, the     *)
(* startup sequence of run() and the teardown of cleanup().                *)
(*                                                                         *)
(* The platform (Vulkan driver, GLFW, file system) is the environment: every*)
(* call into it answers with a status and a payload.  The payload of a call *)
(* that reports failure is arbitrary.                                       *)
(***************************************************************************)
EXTENDS Integers, Sequences, FiniteSets, TLC

\* ------------------------------------------------------------------ bounds
\* adapters the platform enumerates
MaxDevices == 2
\* queue families of an adapter, when findQueueFamilies is run on its own
MaxFamilies == 3
\* surface formats offered, when chooseSwapChainFormat is run on its own
MaxFormats == 3
\* device extensions enumerated, when isDeviceSuitable is run on its own
MaxExts == 2
\* images the driver creates beyond the count requested
MaxExtraImages == 0

\* ------------------------------------------------------- program constants
EXIT_FAILURE == 1
EXIT_SUCCESS == 0
\* The status of a process killed by SIGSEGV, as a shell reports it.
SIGSEGV_EXIT == 128 + 11
WIDTH  == 800
HEIGHT == 600

\* uint32_t, kept at its full width as two 16-bit limbs: the value is
\* hi * 65536 + lo.  (The model checker's own integers are narrower than 2^32.)
U32(n) == [hi |-> n \div 65536, lo |-> n % 65536]
UINT32_MAX == [hi |-> 65535, lo |-> 65535]
Lt32(a, b) == a.hi < b.hi \/ (a.hi = b.hi /\ a.lo < b.lo)
Le32(a, b) == a = b \/ Lt32(a, b)
\* a + 1 in uint32_t arithmetic: the carry out of the high limb is lost.
Inc32(a) == IF a.lo = 65535
            THEN [hi |-> (a.hi + 1) % 65536, lo |-> 0]
            ELSE [hi |-> a.hi, lo |-> a.lo + 1]

deviceExtensions == << "VK_KHR_swapchain" >>
validationLayers == << "VK_LAYER_KHRONOS_validation" >>

PreferredFormat == [format |-> "B8G8R8A8_SRGB", colorSpace |-> "SRGB_NONLINEAR"]

\* ------------------------------------------------------------ small helpers
Range(s) == { s[i] : i \in 1..Len(s) }

SeqsUpTo(S, n) == UNION { [1..k -> S] : k \in 0..n }

Min(S) == CHOOSE x \in S : \A y \in S : x <= y

\* std::optional<uint32_t>: the empty set is "no value", {i} holds i.
NoValue == {}
has_value(o) == o # NoValue
value(o) == CHOOSE x \in o : TRUE

\* ------------------------------------------------- QueueFamilyIndicies
isComplete(ind) == has_value(ind.graphicsFamily) /\ has_value(ind.presentFamily)

\* ------------------------------------------------------ findQueueFamilies
\* queueFlags[i+1]: family i advertises VK_QUEUE_GRAPHICS_BIT.
\* support[i+1]:    what vkGetPhysicalDeviceSurfaceSupportKHR wrote for family i.
\* scanned counts the families the loop body ran for.
RECURSIVE ScanFamilies(_, _, _, _)
ScanFamilies(queueFlags, support, i, ind) ==
    IF i >= Len(queueFlags) THEN ind
    ELSE LET g == IF queueFlags[i + 1] THEN {i} ELSE ind.graphicsFamily
             p == IF support[i + 1] THEN {i} ELSE ind.presentFamily
             nxt == [graphicsFamily |-> g, presentFamily |-> p,
                     scanned |-> ind.scanned + 1]
         IN IF isComplete(nxt) THEN nxt
            ELSE ScanFamilies(queueFlags, support, i + 1, nxt)

findQueueFamilies_CountFirst(queueFlags, support) ==
    LET ind == ScanFamilies(queueFlags, support, 0,
                   [graphicsFamily |-> NoValue, presentFamily |-> NoValue, scanned |-> 0])
    IN [ind EXCEPT !.graphicsFamily = { x + 1 : x \in ind.graphicsFamily },
                   !.presentFamily = { x + 1 : x \in ind.presentFamily }]

findQueueFamilies(queueFlags, support) ==
    ScanFamilies(queueFlags, support, 0,
                 [graphicsFamily |-> NoValue, presentFamily |-> NoValue, scanned |-> 0])

\* ------------------------------------------- checkDeviceExtensionSupport
\* The std::set of required names, with every available name erased in turn.
RECURSIVE EraseAll(_, _, _)
EraseAll(reqExtensions, availableExtensions, k) ==
    IF k > Len(availableExtensions) THEN reqExtensions
    ELSE EraseAll(reqExtensions \ {availableExtensions[k]}, availableExtensions, k + 1)

checkDeviceExtensionSupport(availableExtensions) ==
    EraseAll(Range(deviceExtensions), availableExtensions, 1) = {}

\* ------------------------------------------------- chooseSwapChainFormat
RECURSIVE FirstPreferred(_, _)
FirstPreferred(formats, k) ==
    IF k > Len(formats) THEN 0
    ELSE IF formats[k].format = "B8G8R8A8_SRGB" /\ formats[k].colorSpace = "SRGB_NONLINEAR"
         THEN k
         ELSE FirstPreferred(formats, k + 1)

chooseSwapChainFormat_FormatOnly(formats) ==
    LET hit == { k \in 1..Len(formats) : formats[k].format = "B8G8R8A8_SRGB" }
    IN IF hit # {} THEN formats[Min(hit)] ELSE formats[1]

\* Defined for a non-empty sequence; formats[0] of an empty vector is undefined.
chooseSwapChainFormat(formats) ==
    LET k == FirstPreferred(formats, 1)
    IN IF k # 0 THEN formats[k] ELSE formats[1]

\* ------------------------------------------------- chooseSwapChainPresent
chooseSwapChainPresent(presentModes) ==
    IF \E k \in 1..Len(presentModes) : presentModes[k] = "MAILBOX"
    THEN "MAILBOX" ELSE "FIFO"

\* ------------------------------------------------------ chooseSwapExtent
clamp(v, lo, hi) == IF Lt32(v, lo) THEN lo ELSE IF Lt32(hi, v) THEN hi ELSE v

chooseSwapExtent(capabilities, framebuffer) ==
    IF capabilities.currentExtent.width # UINT32_MAX
    THEN capabilities.currentExtent
    ELSE [width  |-> clamp(U32(framebuffer.width),
                           capabilities.minImageExtent.width,
                           capabilities.maxImageExtent.width),
          height |-> clamp(U32(framebuffer.height),
                           capabilities.minImageExtent.height,
                           capabilities.maxImageExtent.height)]

\* ------------------------------------- createSwapChain: image count
requestedImageCount(capabilities) ==
    LET imageCount == Inc32(capabilities.minImageCount)
    IN IF Lt32(U32(0), capabilities.maxImageCount)
          /\ Lt32(capabilities.maxImageCount, imageCount)
       THEN capabilities.maxImageCount
       ELSE imageCount

\* ------------------------------------- createSwapChain: sharing mode
sharingMode_AlwaysList(indices) ==
    [imageSharingMode |-> IF indices.graphicsFamily # indices.presentFamily
                          THEN "CONCURRENT" ELSE "EXCLUSIVE",
     queueFamilyIndexCount |-> 2,
     pQueueFamilyIndices |-> << value(indices.graphicsFamily), value(indices.presentFamily) >>]

\* pQueueFamilyIndices: the listed indices, << >> for nullptr.
sharingMode(indices) ==
    IF indices.graphicsFamily # indices.presentFamily
    THEN [imageSharingMode |-> "CONCURRENT",
          queueFamilyIndexCount |-> 2,
          pQueueFamilyIndices |-> << value(indices.graphicsFamily),
                                     value(indices.presentFamily) >>]
    ELSE [imageSharingMode |-> "EXCLUSIVE",
          queueFamilyIndexCount |-> 0,
          pQueueFamilyIndices |-> << >>]

\* ------------------------------------------------ the platform's answers
\* What the driver answers for one adapter during one handler:
\*   queueFlags[i+1]  family i has VK_QUEUE_GRAPHICS_BIT
\*   support[i+1]     payload of vkGetPhysicalDeviceSurfaceSupportKHR for family i
\*   extensions       payload of vkEnumerateDeviceExtensionProperties
\*   formats, presentModes, capabilities   payloads of the surface queries
\*   fails            the queries (by kind) that report a status other than VK_SUCCESS
\*   supportFails     the families whose surface-support query reports failure
QueryKinds == { "physicalDevices", "instanceExtensions", "instanceLayers",
                "deviceExtensions", "surfaceCapabilities", "surfaceFormats",
                "presentModes", "surfaceSupport" }

\* ------------------------------------------------- querySwapChainSupport
\* VK_ASSERT guards the capabilities query only; the statuses of the format and
\* present-mode queries are dropped and their payloads are used as they are.
querySwapChainSupport(r) ==
    LET thrown == "surfaceCapabilities" \in r.fails
        queries == IF thrown THEN {"surfaceCapabilities"}
                   ELSE {"surfaceCapabilities", "surfaceFormats", "presentModes"}
    IN [thrown       |-> thrown,
        capabilities |-> r.capabilities,
        formats      |-> r.formats,
        presentModes |-> r.presentModes,
        queries      |-> queries,
        failed       |-> queries \cap r.fails]

\* The surface-support queries findQueueFamilies issued that reported failure.
SupportFailed(r, indices) ==
    IF \E i \in r.supportFails : i < indices.scanned THEN {"surfaceSupport"} ELSE {}

\* ------------------------------------------------------ isDeviceSuitable
\* thrown: a VK_ASSERT inside raised; value: the returned bool;
\* queries: the query kinds issued; failed: those of them that reported failure.
isDeviceSuitable_Or(r) ==
    LET indices == findQueueFamilies(r.queueFlags, r.support)
        extOk   == checkDeviceExtensionSupport(r.extensions)
        details == querySwapChainSupport(r)
    IN [thrown  |-> FALSE,
        value   |-> isComplete(indices) \/ (extOk /\ details.formats # << >>
                                                  /\ details.presentModes # << >>),
        queries |-> {"surfaceSupport", "deviceExtensions"} \cup details.queries,
        failed  |-> {}]

isDeviceSuitable(r) ==
    LET indices   == findQueueFamilies(r.queueFlags, r.support)
        qfQueries == IF indices.scanned > 0 THEN {"surfaceSupport"} ELSE {}
        qfFailed  == SupportFailed(r, indices)
        extThrown == "deviceExtensions" \in r.fails
        extOk     == checkDeviceExtensionSupport(r.extensions)
        details   == querySwapChainSupport(r)
    IN IF extThrown
       THEN [thrown |-> TRUE, value |-> FALSE,
             queries |-> qfQueries \cup {"deviceExtensions"},
             failed  |-> qfFailed \cup {"deviceExtensions"}]
       ELSE IF ~extOk
       THEN [thrown |-> FALSE, value |-> FALSE,
             queries |-> qfQueries \cup {"deviceExtensions"},
             failed  |-> qfFailed]
       ELSE IF details.thrown
       THEN [thrown |-> TRUE, value |-> FALSE,
             queries |-> qfQueries \cup {"deviceExtensions"} \cup details.queries,
             failed  |-> qfFailed \cup details.failed]
       ELSE [thrown |-> FALSE,
             value  |-> isComplete(indices)
                        /\ (details.formats # << >> /\ details.presentModes # << >>),
             queries |-> qfQueries \cup {"deviceExtensions"} \cup details.queries,
             failed  |-> qfFailed \cup details.failed]

\* ---------------------------------------------------- pickPhysicalDevice
\* The loop over the enumerated adapters from position k on, then the check for
\* VK_NULL_HANDLE.  physicalDevice is the 1-based position of the chosen adapter,
\* 0 for VK_NULL_HANDLE; failed collects the failed queries issued on the way.
SuitabilityError(s) ==
    IF "deviceExtensions" \in s.failed
    THEN "Could not enumerate Device Extensions!"
    ELSE "Could not get physical surface capabilities!"

PickLast(responses, k, failed) ==
    LET ok == { j \in 1..Len(responses) :
                  ~isDeviceSuitable(responses[j]).thrown /\ isDeviceSuitable(responses[j]).value }
    IN IF ok = {}
       THEN [thrown |-> TRUE, what |-> "Could not find any suitable physical device",
             physicalDevice |-> 0, failed |-> failed]
       ELSE [thrown |-> FALSE, what |-> "",
             physicalDevice |-> CHOOSE j \in ok : \A i \in ok : i <= j, failed |-> failed]

RECURSIVE PickLoop(_, _, _)
PickLoop(responses, k, failed) ==
    IF k > Len(responses)
    THEN [thrown |-> TRUE, what |-> "Could not find any suitable physical device",
          physicalDevice |-> 0, failed |-> failed]
    ELSE LET s == isDeviceSuitable(responses[k])
         IN IF s.thrown
            THEN [thrown |-> TRUE, what |-> SuitabilityError(s),
                  physicalDevice |-> 0, failed |-> failed \cup s.failed]
            ELSE IF s.value
            THEN [thrown |-> FALSE, what |-> "",
                  physicalDevice |-> k, failed |-> failed \cup s.failed]
            ELSE PickLoop(responses, k + 1, failed \cup s.failed)

\* enumerated: vkEnumeratePhysicalDevices reported VK_SUCCESS.
pickPhysicalDevice(enumerated, responses) ==
    IF ~enumerated
    THEN [thrown |-> TRUE, what |-> "Could not enumerate physical devices",
          physicalDevice |-> 0, failed |-> {"physicalDevices"}]
    ELSE IF Len(responses) = 0
    THEN [thrown |-> TRUE, what |-> "Could not enumerate physical devices!",
          physicalDevice |-> 0, failed |-> {}]
    ELSE PickLoop(responses, 1, {})

\* ------------------------------------------------------------------ state
VARIABLES
    pc,                     \* where main / run() stands
    enableValidationLayers, \* the build's constant (DEBUG defined or not)
    adapters,               \* the adapters the platform has, in enumeration order
    window, instance, debugMessenger, surface,
    physicalDevice, device, graphicsQueue, presentQueue,
    swapChain, swapChainImages, swapChainImageFormat, swapChainExtent,
    swapChainImageViews,
    createInfo,             \* the VkSwapchainCreateInfoKHR createSwapChain built
    shaders,                \* the shader files createGraphicsPipeline has read
    observed,               \* the platform's answers to the last handler that queried
    calls,                  \* the create / destroy calls issued to the platform
    failedQueries,          \* the query kinds that reported failure so far
    thrower,                \* the handler that raised the exception, "" if none
    what,                   \* the message of the exception, "" if none
    exitStatus,             \* the process exit status, -1 while running
    call, ret               \* function-level runs: the call made and its result

appVars == << window, instance, debugMessenger, surface, physicalDevice, device,
              graphicsQueue, presentQueue, swapChain, swapChainImages,
              swapChainImageFormat, swapChainExtent, swapChainImageViews >>
runVars == << pc, enableValidationLayers, adapters, createInfo, shaders,
                    observed, calls,
              failedQueries, thrower, what, exitStatus >>
fnVars  == << call, ret >>
vars    == << appVars, runVars, fnVars >>

NoExtent  == [width |-> U32(0), height |-> U32(0)]
NoRequest == [built |-> FALSE]

\* The object after construction: only physicalDevice has an initializer.
Constructed ==
    /\ window = "uninit" /\ instance = "uninit" /\ debugMessenger = "uninit"
    /\ surface = "uninit" /\ physicalDevice = 0 /\ device = "uninit"
    /\ graphicsQueue = NoValue /\ presentQueue = NoValue
    /\ swapChain = "uninit" /\ swapChainImages = << >>
    /\ swapChainImageFormat = "UNDEFINED" /\ swapChainExtent = NoExtent
    /\ swapChainImageViews = << >>
    /\ createInfo = NoRequest /\ shaders = {} /\ observed = << >> /\ calls = << >>
    /\ failedQueries = {} /\ thrower = "" /\ what = "" /\ exitStatus = -1

\* ---------------------------------------------------- function-level runs
SurfaceFormats == [format : {"B8G8R8A8_SRGB", "B8G8R8A8_UNORM"},
                   colorSpace : {"SRGB_NONLINEAR", "DISPLAY_P3_NONLINEAR"}]

ExtentValues == {U32(100), U32(720), U32(4000), UINT32_MAX}
Extents == [width : ExtentValues, height : ExtentValues]
FramebufferSizes == [width : {50, WIDTH, 4500}, height : {50, HEIGHT, 4500}]

CountValues == {U32(0), U32(1), U32(2), U32(3), [hi |-> 65535, lo |-> 65534], UINT32_MAX}

DefaultCapabilities ==
    [minImageCount |-> U32(1), maxImageCount |-> U32(0),
     currentExtent  |-> [width |-> U32(1280), height |-> U32(720)],
     minImageExtent |-> [width |-> U32(100), height |-> U32(100)],
     maxImageExtent |-> [width |-> U32(4000), height |-> U32(4000)]]

ExtensionNames == {"VK_KHR_swapchain", "VK_KHR_portability_subset", "VK_KHR_maintenance1"}

FamilyLists == UNION { [queueFlags : [1..n -> BOOLEAN], support : [1..n -> BOOLEAN]]
                       : n \in 0..MaxFamilies }

FormatCalls == [fn : {"chooseSwapChainFormat"},
                formats : SeqsUpTo(SurfaceFormats, MaxFormats) \ {<< >>}]

ExtentCalls == [fn : {"chooseSwapExtent"},
                capabilities : { [DefaultCapabilities EXCEPT !.currentExtent = e] : e \in Extents },
                framebuffer : FramebufferSizes]

CountCalls == [fn : {"requestedImageCount"},
               capabilities : { [DefaultCapabilities EXCEPT !.minImageCount = lo,
                                                            !.maxImageCount = hi]
                                : lo \in CountValues, hi \in CountValues }]

FamilyCalls == [fn : {"findQueueFamilies"}, families : FamilyLists]

SuitableCalls ==
    [fn : {"isDeviceSuitable"},
     r : [queueFlags   : {<< >>, <<TRUE>>, <<TRUE, FALSE>>},
          support      : {<< >>, <<TRUE>>, <<FALSE>>, <<FALSE, TRUE>>, <<FALSE, FALSE>>},
          extensions   : SeqsUpTo(ExtensionNames, MaxExts),
          formats      : {<< >>, << PreferredFormat >>},
          presentModes : {<< >>, << "FIFO" >>},
          capabilities : {DefaultCapabilities},
          fails        : SUBSET {"deviceExtensions", "surfaceCapabilities",
                                 "surfaceFormats", "presentModes"},
          supportFails : {{}, {0}}]]

WellFormed(r) == Len(r.queueFlags) = Len(r.support)

InitFn ==
    /\ Constructed
    /\ pc = "function"
    /\ enableValidationLayers = FALSE
    /\ adapters = << >>
    /\ ret = [done |-> FALSE]
    /\ \/ call \in FormatCalls
       \/ call \in ExtentCalls
       \/ call \in CountCalls
       \/ call \in FamilyCalls
       \/ call \in { c \in SuitableCalls : WellFormed(c.r) }

Apply_chooseSwapChainFormat ==
    /\ call.fn = "chooseSwapChainFormat" /\ ~ret.done
    /\ ret' = [done |-> TRUE, value |-> chooseSwapChainFormat(call.formats)]
    /\ UNCHANGED << appVars, runVars, call >>

Apply_chooseSwapExtent ==
    /\ call.fn = "chooseSwapExtent" /\ ~ret.done
    /\ ret' = [done |-> TRUE,
               value |-> chooseSwapExtent(call.capabilities, call.framebuffer)]
    /\ UNCHANGED << appVars, runVars, call >>

Apply_requestedImageCount ==
    /\ call.fn = "requestedImageCount" /\ ~ret.done
    /\ ret' = [done |-> TRUE, value |-> requestedImageCount(call.capabilities)]
    /\ UNCHANGED << appVars, runVars, call >>

Apply_findQueueFamilies ==
    /\ call.fn = "findQueueFamilies" /\ ~ret.done
    /\ ret' = [done |-> TRUE,
               value |-> findQueueFamilies(call.families.queueFlags, call.families.support)]
    /\ UNCHANGED << appVars, runVars, call >>

Apply_isDeviceSuitable ==
    /\ call.fn = "isDeviceSuitable" /\ ~ret.done
    /\ ret' = [done |-> TRUE, value |-> isDeviceSuitable(call.r)]
    /\ UNCHANGED << appVars, runVars, call >>

NextFn ==
    \/ Apply_chooseSwapChainFormat
    \/ Apply_chooseSwapExtent
    \/ Apply_requestedImageCount
    \/ Apply_findQueueFamilies
    \/ Apply_isDeviceSuitable

SpecFn == InitFn /\ [][NextFn]_vars

\* ------------------------------------------------------------ the platform
Adapter(queueFlags, support, extensions, formats, presentModes, capabilities) ==
    [queueFlags |-> queueFlags, support |-> support, extensions |-> extensions,
     formats |-> formats, presentModes |-> presentModes, capabilities |-> capabilities,
     fails |-> {}, supportFails |-> {}]

SentinelCapabilities ==
    [minImageCount |-> U32(1), maxImageCount |-> U32(1),
     currentExtent  |-> [width |-> UINT32_MAX, height |-> UINT32_MAX],
     minImageExtent |-> [width |-> U32(100), height |-> U32(100)],
     maxImageExtent |-> [width |-> U32(1000), height |-> U32(1000)]]

UnormFormat     == [format |-> "B8G8R8A8_UNORM", colorSpace |-> "SRGB_NONLINEAR"]
\* A value-initialized VkSurfaceFormatKHR.
UndefinedFormat == [format |-> "UNDEFINED", colorSpace |-> "SRGB_NONLINEAR"]

\* One family that renders and presents.
UnifiedAdapter ==
    Adapter(<<TRUE>>, <<TRUE>>, <<"VK_KHR_swapchain">>,
            <<PreferredFormat>>, <<"FIFO">>, DefaultCapabilities)
\* Rendering and presenting on different families.
SplitAdapter ==
    Adapter(<<TRUE, FALSE>>, <<FALSE, TRUE>>,
            <<"VK_KHR_portability_subset", "VK_KHR_swapchain">>,
            <<UnormFormat, PreferredFormat>>, <<"FIFO", "MAILBOX">>, SentinelCapabilities)
\* No swap-chain extension.
HeadlessAdapter ==
    Adapter(<<TRUE>>, <<TRUE>>, <<"VK_KHR_maintenance1">>,
            <<PreferredFormat>>, <<"FIFO">>, DefaultCapabilities)
\* No graphics family.
ComputeAdapter ==
    Adapter(<<FALSE>>, <<TRUE>>, <<"VK_KHR_swapchain">>,
            <<UnormFormat>>, <<"FIFO">>, DefaultCapabilities)

AdapterCatalogue == { UnifiedAdapter, SplitAdapter, HeadlessAdapter, ComputeAdapter }

\* The answers adapter a may give during one handler that issues the queries of
\* the given kinds: all true to the adapter, or one query reporting failure, its
\* payload then being arbitrary.
Responses(a, kinds) ==
    {a}
    \cup { [a EXCEPT !.fails = {"deviceExtensions"}]
           : x \in {"deviceExtensions"} \cap kinds }
    \cup { [a EXCEPT !.fails = {"surfaceCapabilities"}]
           : x \in {"surfaceCapabilities"} \cap kinds }
    \cup { [a EXCEPT !.fails = {"surfaceFormats"}, !.formats = f]
           : f \in { << >>, <<UndefinedFormat>> }, x \in {"surfaceFormats"} \cap kinds }
    \cup { [a EXCEPT !.fails = {"presentModes"}, !.presentModes = m]
           : m \in { << >>, <<"IMMEDIATE">> }, x \in {"presentModes"} \cap kinds }
    \cup { [a EXCEPT !.supportFails = {i}, !.support[i + 1] = b]
           : i \in 0..(Len(a.support) - 1), b \in BOOLEAN,
             x \in {"surfaceSupport"} \cap kinds }

\* The answers of all adapters during pickPhysicalDevice: at most one query fails.
PickResponses(as) ==
    {as} \cup UNION { { [as EXCEPT ![k] = r] : r \in Responses(as[k], QueryKinds) } : k \in 1..Len(as) }

LiveFramebuffers == { [width |-> WIDTH, height |-> HEIGHT],
                      [width |-> 2 * WIDTH, height |-> 2 * HEIGHT] }

\* Instance-level inventory: layers and extensions the loader enumerates.
glfwRequiredInstanceExtensions == << "VK_KHR_surface" >>

InstanceExtensionLists ==
    { << "VK_KHR_surface", "VK_EXT_debug_utils", "VK_KHR_portability_enumeration",
         "VK_KHR_get_physical_device_properties2" >>,
      << "VK_KHR_surface", "VK_EXT_debug_utils", "VK_KHR_portability_enumeration" >>,
      << "VK_KHR_surface", "VK_EXT_debug_utils" >> }

InstanceLayerLists == { << >>, << "VK_LAYER_KHRONOS_validation" >> }

\* -------------------------------------------------------------- throwing
\* The exception leaves run() and reaches the handler in main.
Throw(fn, msg) ==
    /\ pc' = "catch"
    /\ thrower' = fn
    /\ what' = msg

Proceed(next) ==
    /\ pc' = next
    /\ UNCHANGED << thrower, what >>

\* ---------------------------------------------------------------- Init
Init ==
    /\ Constructed
    /\ pc = "initWindow"
    /\ enableValidationLayers \in BOOLEAN
    /\ adapters \in SeqsUpTo(AdapterCatalogue, MaxDevices)
    /\ call = [fn |-> "none"]
    /\ ret = [done |-> FALSE]

\* ---------------------------------------------------------------- steps
initWindow ==
    /\ pc = "initWindow"
    /\ window' = "live"
    /\ calls' = calls \o << "glfwCreateWindow" >>
    /\ Proceed("createInstance")
    /\ UNCHANGED << instance, debugMessenger, surface, physicalDevice, device,
                    graphicsQueue, presentQueue, swapChain, swapChainImages,
                    swapChainImageFormat, swapChainExtent, swapChainImageViews,
                    enableValidationLayers, adapters, createInfo, shaders, observed,
                    failedQueries, exitStatus, fnVars >>

checkValidationLayerSupport(layers) ==
    \A k \in 1..Len(validationLayers) :
        \E j \in 1..Len(layers) : layers[j] = validationLayers[k]

getRequiredExtensions ==
    glfwRequiredInstanceExtensions
    \o (IF enableValidationLayers THEN << "VK_EXT_debug_utils" >> ELSE << >>)
    \o << "VK_KHR_portability_enumeration" >>

\* missing: the first required name not enumerated (0 if none);
\* extensions: the list handed to vkCreateInstance.
checkAndAddInstanceExtensionSupport(requiredExtensions, extensions) ==
    LET absent == { k \in 1..Len(requiredExtensions) :
                      \A j \in 1..Len(extensions) : extensions[j] # requiredExtensions[k] }
    IN [missing |-> IF absent = {} THEN 0 ELSE Min(absent),
        extensions |->
            IF \E j \in 1..Len(extensions) :
                    extensions[j] = "VK_KHR_get_physical_device_properties2"
            THEN requiredExtensions \o << "VK_KHR_get_physical_device_properties2" >>
            ELSE requiredExtensions]

createInstance ==
    /\ pc = "createInstance"
    /\ \E layers \in InstanceLayerLists, extensions \in InstanceExtensionLists,
          failing \in { {}, {"instanceLayers"}, {"instanceExtensions"} },
          created \in BOOLEAN :
        LET checked == checkAndAddInstanceExtensionSupport(getRequiredExtensions, extensions)
        IN
        IF enableValidationLayers /\ "instanceLayers" \in failing
        THEN /\ Throw("createInstance", "Failed to enumerate Layer Properties")
             /\ failedQueries' = failedQueries \cup {"instanceLayers"}
             /\ UNCHANGED << instance, calls >>
        ELSE IF enableValidationLayers /\ ~checkValidationLayerSupport(layers)
        THEN /\ Throw("createInstance", "Validation Layer requested, but not available!")
             /\ UNCHANGED << instance, calls, failedQueries >>
        ELSE IF "instanceExtensions" \in failing
        THEN /\ Throw("createInstance", "Failed to enumerate Instance Extensions!")
             /\ failedQueries' = failedQueries \cup {"instanceExtensions"}
             /\ UNCHANGED << instance, calls >>
        ELSE IF checked.missing # 0
        THEN /\ Throw("createInstance", "Could not find required GLFW Extension")
             /\ UNCHANGED << instance, calls, failedQueries >>
        ELSE /\ calls' = calls \o << "vkCreateInstance" >>
             /\ UNCHANGED failedQueries
             /\ IF created
                THEN instance' = "live" /\ Proceed("setupDebugMessenger")
                ELSE /\ Throw("createInstance", "Failed to initialize Vulkan Instance!")
                     /\ UNCHANGED instance
    /\ UNCHANGED << window, debugMessenger, surface, physicalDevice, device,
                    graphicsQueue, presentQueue, swapChain, swapChainImages,
                    swapChainImageFormat, swapChainExtent, swapChainImageViews,
                    enableValidationLayers, adapters, createInfo, shaders, observed,
                    exitStatus, fnVars >>

setupDebugMessenger ==
    /\ pc = "setupDebugMessenger"
    /\ \E func \in BOOLEAN, created \in BOOLEAN :
        IF ~enableValidationLayers
        THEN Proceed("createSurface") /\ UNCHANGED << debugMessenger, calls >>
        ELSE IF ~func
        THEN /\ Throw("setupDebugMessenger",
                      "Could not find InstanceProcAddr of vkCreateDebugUtilsMessengerEXT")
             /\ UNCHANGED << debugMessenger, calls >>
        ELSE /\ calls' = calls \o << "vkCreateDebugUtilsMessengerEXT" >>
             /\ IF created
                THEN debugMessenger' = "live" /\ Proceed("createSurface")
                ELSE /\ Throw("setupDebugMessenger", "DebugUtilsMessenger could not be created")
                     /\ UNCHANGED debugMessenger
    /\ UNCHANGED << window, instance, surface, physicalDevice, device,
                    graphicsQueue, presentQueue, swapChain, swapChainImages,
                    swapChainImageFormat, swapChainExtent, swapChainImageViews,
                    enableValidationLayers, adapters, createInfo, shaders, observed,
                    failedQueries, exitStatus, fnVars >>

createSurface ==
    /\ pc = "createSurface"
    /\ calls' = calls \o << "glfwCreateWindowSurface" >>
    /\ \E created \in BOOLEAN :
        IF created
        THEN surface' = "live" /\ Proceed("pickPhysicalDevice")
        ELSE Throw("createSurface", "Could not create window surface!") /\ UNCHANGED surface
    /\ UNCHANGED << window, instance, debugMessenger, physicalDevice, device,
                    graphicsQueue, presentQueue, swapChain, swapChainImages,
                    swapChainImageFormat, swapChainExtent, swapChainImageViews,
                    enableValidationLayers, adapters, createInfo, shaders, observed,
                    failedQueries, exitStatus, fnVars >>

pickPhysicalDeviceStep ==
    /\ pc = "pickPhysicalDevice"
    /\ \E enumerated \in BOOLEAN, responses \in PickResponses(adapters) :
        LET picked == pickPhysicalDevice(enumerated, responses)
        IN /\ physicalDevice' = picked.physicalDevice
           /\ observed' = IF enumerated THEN responses ELSE << >>
           /\ failedQueries' = failedQueries \cup picked.failed
           /\ IF picked.thrown
              THEN Throw("pickPhysicalDevice", picked.what)
              ELSE Proceed("createLogicalDevice")
    /\ UNCHANGED << window, instance, debugMessenger, surface, device,
                    graphicsQueue, presentQueue, swapChain, swapChainImages,
                    swapChainImageFormat, swapChainExtent, swapChainImageViews,
                    enableValidationLayers, adapters, createInfo, shaders, calls,
                    exitStatus, fnVars >>

createLogicalDevice_Unguarded ==
    /\ pc = "createLogicalDevice"
    /\ \E r \in Responses(adapters[physicalDevice], {"surfaceSupport", "deviceExtensions"}),
          created \in BOOLEAN :
        LET indices == findQueueFamilies(r.queueFlags, r.support)
        IN /\ observed' = << r >>
           /\ IF "deviceExtensions" \in r.fails
              THEN /\ Throw("createLogicalDevice", "Could not enumerate Device Extensions!")
                   /\ failedQueries' = failedQueries \cup SupportFailed(r, indices)
                                                     \cup {"deviceExtensions"}
                   /\ UNCHANGED << device, graphicsQueue, presentQueue, calls >>
              ELSE /\ failedQueries' = failedQueries \cup SupportFailed(r, indices)
                   /\ calls' = calls \o << "vkCreateDevice" >>
                   /\ IF created
                      THEN /\ device' = "live"
                           /\ graphicsQueue' = indices.graphicsFamily
                           /\ presentQueue' = indices.presentFamily
                           /\ Proceed("createSwapChain")
                      ELSE /\ Throw("createLogicalDevice", "Could not create logical device!")
                           /\ UNCHANGED << device, graphicsQueue, presentQueue >>
    /\ UNCHANGED << window, instance, debugMessenger, surface, physicalDevice,
                    swapChain, swapChainImages, swapChainImageFormat, swapChainExtent,
                    swapChainImageViews, enableValidationLayers, adapters, createInfo, shaders,
                    exitStatus, fnVars >>

createLogicalDevice ==
    /\ pc = "createLogicalDevice"
    /\ \E r \in Responses(adapters[physicalDevice], {"surfaceSupport", "deviceExtensions"}),
          created \in BOOLEAN :
        LET indices == findQueueFamilies(r.queueFlags, r.support)
        IN /\ observed' = << r >>
           /\ IF ~isComplete(indices)
              THEN /\ Throw("createLogicalDevice", "bad optional access")
                   /\ failedQueries' = failedQueries \cup SupportFailed(r, indices)
                   /\ UNCHANGED << device, graphicsQueue, presentQueue, calls >>
              ELSE IF "deviceExtensions" \in r.fails
              THEN /\ Throw("createLogicalDevice", "Could not enumerate Device Extensions!")
                   /\ failedQueries' = failedQueries \cup SupportFailed(r, indices)
                                                     \cup {"deviceExtensions"}
                   /\ UNCHANGED << device, graphicsQueue, presentQueue, calls >>
              ELSE /\ failedQueries' = failedQueries \cup SupportFailed(r, indices)
                   /\ calls' = calls \o << "vkCreateDevice" >>
                   /\ IF created
                      THEN /\ device' = "live"
                           /\ graphicsQueue' = indices.graphicsFamily
                           /\ presentQueue' = indices.presentFamily
                           /\ Proceed("createSwapChain")
                      ELSE /\ Throw("createLogicalDevice", "Could not create logical device!")
                           /\ UNCHANGED << device, graphicsQueue, presentQueue >>
    /\ UNCHANGED << window, instance, debugMessenger, surface, physicalDevice,
                    swapChain, swapChainImages, swapChainImageFormat, swapChainExtent,
                    swapChainImageViews, enableValidationLayers, adapters, createInfo, shaders,
                    exitStatus, fnVars >>

\* The request createSwapChain hands to vkCreateSwapchainKHR.
swapchainCreateInfo(surfaceFormat, present, extent, imageCount, indices) ==
    LET sharing == sharingMode(indices)
    IN [built                 |-> TRUE,
        minImageCount         |-> imageCount,
        imageFormat           |-> surfaceFormat.format,
        imageColorSpace       |-> surfaceFormat.colorSpace,
        imageExtent           |-> extent,
        imageSharingMode      |-> sharing.imageSharingMode,
        queueFamilyIndexCount |-> sharing.queueFamilyIndexCount,
        pQueueFamilyIndices   |-> sharing.pQueueFamilyIndices,
        presentMode           |-> present]

\* images: "ok", or the vkGetSwapchainImagesKHR call that failed.
\* With no format in the list, formats[0] reads past an empty vector: the
\* process is killed, or the read yields some format.
createSwapChain ==
    /\ pc = "createSwapChain"
    /\ \E r \in Responses(adapters[physicalDevice],
                           {"surfaceCapabilities", "surfaceFormats", "presentModes",
                            "surfaceSupport"}),
          framebuffer \in LiveFramebuffers,
          created \in BOOLEAN, images \in {"ok", "count", "fetch"},
          extra \in 0..MaxExtraImages, killed \in BOOLEAN :
        LET support == querySwapChainSupport(r)
            surfaceFormat == IF support.formats = << >> THEN UndefinedFormat
                             ELSE chooseSwapChainFormat(support.formats)
            present == chooseSwapChainPresent(support.presentModes)
            extent == chooseSwapExtent(support.capabilities, framebuffer)
            imageCount == requestedImageCount(support.capabilities)
            indices == findQueueFamilies(r.queueFlags, r.support)
            \* the driver creates at least the requested number of images
            n == imageCount.lo + extra
        IN /\ observed' = << r >>
           /\ IF support.thrown
              THEN /\ Throw("createSwapChain", "Could not get physical surface capabilities!")
                   /\ failedQueries' = failedQueries \cup support.failed
                   /\ UNCHANGED << swapChain, swapChainImages, swapChainImageFormat,
                                   swapChainExtent, createInfo, calls, exitStatus >>
              ELSE IF support.formats = << >> /\ killed
              THEN /\ pc' = "exited"
                   /\ exitStatus' = SIGSEGV_EXIT
                   /\ failedQueries' = failedQueries \cup support.failed
                   /\ UNCHANGED << swapChain, swapChainImages, swapChainImageFormat,
                                   swapChainExtent, createInfo, calls, thrower, what >>
              ELSE IF ~isComplete(indices)
              THEN /\ Throw("createSwapChain", "bad optional access")
                   /\ failedQueries' = failedQueries \cup support.failed
                                                     \cup SupportFailed(r, indices)
                   /\ UNCHANGED << swapChain, swapChainImages, swapChainImageFormat,
                                   swapChainExtent, createInfo, calls, exitStatus >>
              ELSE /\ failedQueries' = failedQueries \cup support.failed
                                                     \cup SupportFailed(r, indices)
                   /\ createInfo' = swapchainCreateInfo(surfaceFormat, present, extent,
                                                        imageCount, indices)
                   /\ calls' = calls \o << "vkCreateSwapchainKHR" >>
                   /\ UNCHANGED exitStatus
                   /\ IF ~created
                      THEN /\ Throw("createSwapChain", "Could not create Swapchain!")
                           /\ UNCHANGED << swapChain, swapChainImages,
                                           swapChainImageFormat, swapChainExtent >>
                      ELSE /\ swapChain' = "live"
                           /\ IF images = "count"
                              THEN /\ Throw("createSwapChain", "Could not get Swapchain Images!")
                                   /\ UNCHANGED << swapChainImages, swapChainImageFormat,
                                                   swapChainExtent >>
                              ELSE IF images = "fetch"
                              THEN /\ Throw("createSwapChain", "Could not get Swapchain Images!")
                                   /\ swapChainImages' = [i \in 1..n |-> 0]
                                   /\ UNCHANGED << swapChainImageFormat, swapChainExtent >>
                              ELSE /\ swapChainImages' = [i \in 1..n |-> i]
                                   /\ swapChainImageFormat' = surfaceFormat.format
                                   /\ swapChainExtent' = extent
                                   /\ Proceed("createImageViews")
    /\ UNCHANGED << window, instance, debugMessenger, surface, physicalDevice, device,
                    graphicsQueue, presentQueue, swapChainImageViews,
                    enableValidationLayers, adapters, shaders, fnVars >>

createImageViews_Reversed ==
    /\ pc = "createImageViews"
    /\ \E failAt \in 0..Len(swapChainImages) :
        LET n == Len(swapChainImages)
            made == IF failAt = 0 THEN n ELSE failAt - 1
        IN /\ swapChainImageViews' =
                  [i \in 1..n |-> IF i <= made THEN swapChainImages[n + 1 - i] ELSE 0]
           /\ calls' = calls \o [i \in 1..(IF failAt = 0 THEN made ELSE failAt)
                                   |-> "vkCreateImageView"]
           /\ IF failAt = 0
              THEN Proceed("createGraphicsPipeline")
              ELSE Throw("createImageViews", "Could not create image view!")
    /\ UNCHANGED << window, instance, debugMessenger, surface, physicalDevice, device,
                    graphicsQueue, presentQueue, swapChain, swapChainImages,
                    swapChainImageFormat, swapChainExtent,
                    enableValidationLayers, adapters, createInfo, shaders, observed,
                    failedQueries, exitStatus, fnVars >>

createImageViews_Unchecked ==
    /\ pc = "createImageViews"
    /\ \E failAt \in 0..Len(swapChainImages) :
        /\ swapChainImageViews' =
               [i \in 1..Len(swapChainImages) |->
                   IF i # failAt THEN swapChainImages[i] ELSE 0]
        /\ calls' = calls \o [i \in 1..Len(swapChainImages) |-> "vkCreateImageView"]
        /\ Proceed("createGraphicsPipeline")
    /\ UNCHANGED << window, instance, debugMessenger, surface, physicalDevice, device,
                    graphicsQueue, presentQueue, swapChain, swapChainImages,
                    swapChainImageFormat, swapChainExtent,
                    enableValidationLayers, adapters, createInfo, shaders, observed,
                    failedQueries, exitStatus, fnVars >>

\* failAt: the position whose vkCreateImageView fails, 0 if none does.  A view is
\* named by the image it views; 0 is a view never created.
createImageViews ==
    /\ pc = "createImageViews"
    /\ \E failAt \in 0..Len(swapChainImages) :
        LET made == IF failAt = 0 THEN Len(swapChainImages) ELSE failAt - 1
        IN /\ swapChainImageViews' =
                  [i \in 1..Len(swapChainImages) |->
                      IF i <= made THEN swapChainImages[i] ELSE 0]
           /\ calls' = calls \o [i \in 1..(IF failAt = 0 THEN made ELSE failAt)
                                   |-> "vkCreateImageView"]
           /\ IF failAt = 0
              THEN Proceed("createGraphicsPipeline")
              ELSE Throw("createImageViews", "Could not create image view!")
    /\ UNCHANGED << window, instance, debugMessenger, surface, physicalDevice, device,
                    graphicsQueue, presentQueue, swapChain, swapChainImages,
                    swapChainImageFormat, swapChainExtent,
                    enableValidationLayers, adapters, createInfo, shaders, observed,
                    failedQueries, exitStatus, fnVars >>

\* Loader::readFile throws when the file cannot be opened.
createGraphicsPipeline ==
    /\ pc = "createGraphicsPipeline"
    /\ \E vert \in BOOLEAN, frag \in BOOLEAN :
        IF ~vert
        THEN /\ Throw("createGraphicsPipeline", "Could not open file vert.spv")
             /\ UNCHANGED shaders
        ELSE IF ~frag
        THEN /\ Throw("createGraphicsPipeline", "Could not open file frag.spv")
             /\ shaders' = shaders \cup {"vert.spv"}
        ELSE /\ Proceed("mainLoop")
             /\ shaders' = shaders \cup {"vert.spv", "frag.spv"}
    /\ UNCHANGED << appVars, enableValidationLayers, adapters, createInfo, observed,
                    calls, failedQueries, exitStatus, fnVars >>

\* Polls until the window is asked to close.
mainLoop ==
    /\ pc = "mainLoop"
    /\ calls' = calls \o << "glfwWindowShouldClose" >>
    /\ Proceed("cleanup")
    /\ UNCHANGED << appVars, enableValidationLayers, adapters, createInfo, shaders, observed,
                    failedQueries, exitStatus, fnVars >>

\* The release calls of cleanup, in the order issued.  func: the lookup of
\* vkDestroyDebugUtilsMessengerEXT found the function.
cleanupCalls_DeviceFirst(views, validation, func) ==
    << "vkDestroyDevice" >>
    \o [i \in 1..Len(views) |-> "vkDestroyImageView"]
    \o << "vkDestroySwapchainKHR" >>
    \o (IF validation /\ func THEN << "vkDestroyDebugUtilsMessengerEXT" >> ELSE << >>)
    \o << "vkDestroySurfaceKHR", "vkDestroyInstance", "glfwDestroyWindow", "glfwTerminate" >>

cleanupCalls(views, validation, func) ==
    [i \in 1..Len(views) |-> "vkDestroyImageView"]
    \o << "vkDestroySwapchainKHR", "vkDestroyDevice" >>
    \o (IF validation /\ func THEN << "vkDestroyDebugUtilsMessengerEXT" >> ELSE << >>)
    \o << "vkDestroySurfaceKHR", "vkDestroyInstance", "glfwDestroyWindow", "glfwTerminate" >>

cleanup ==
    /\ pc = "cleanup"
    /\ \E func \in BOOLEAN :
        /\ calls' = calls \o cleanupCalls(swapChainImageViews, enableValidationLayers, func)
        /\ debugMessenger' = IF enableValidationLayers /\ func THEN "destroyed"
                             ELSE debugMessenger
    /\ swapChain' = "destroyed"
    /\ device' = "destroyed"
    /\ surface' = "destroyed"
    /\ instance' = "destroyed"
    /\ window' = "destroyed"
    /\ Proceed("return")
    /\ UNCHANGED << physicalDevice, graphicsQueue, presentQueue, swapChainImages,
                    swapChainImageFormat, swapChainExtent, swapChainImageViews,
                    enableValidationLayers, adapters, createInfo, shaders, observed,
                    failedQueries, exitStatus, fnVars >>

\* main: run() returned.
mainReturn ==
    /\ pc = "return"
    /\ pc' = "exited"
    /\ exitStatus' = EXIT_SUCCESS
    /\ UNCHANGED << appVars, enableValidationLayers, adapters, createInfo, shaders, observed,
                    calls, failedQueries, thrower, what, fnVars >>

\* main: the handler for std::exception prints e.what() and returns EXIT_FAILURE.
mainCatch ==
    /\ pc = "catch"
    /\ pc' = "exited"
    /\ exitStatus' = EXIT_FAILURE
    /\ UNCHANGED << appVars, enableValidationLayers, adapters, createInfo, shaders, observed,
                    calls, failedQueries, thrower, what, fnVars >>

Next ==
    \/ initWindow
    \/ createInstance
    \/ setupDebugMessenger
    \/ createSurface
    \/ pickPhysicalDeviceStep
    \/ createLogicalDevice
    \/ createSwapChain
    \/ createImageViews
    \/ createGraphicsPipeline
    \/ mainLoop
    \/ cleanup
    \/ mainReturn
    \/ mainCatch

Spec == Init /\ [][Next]_vars

\* ================================================================ claims
Positions(c) == { i \in 1..Len(calls) : calls[i] = c }
Issued(c) == Positions(c) # {}

ReleaseCalls == { "vkDestroyImageView", "vkDestroySwapchainKHR", "vkDestroyDevice",
                  "vkDestroyDebugUtilsMessengerEXT", "vkDestroySurfaceKHR",
                  "vkDestroyInstance", "glfwDestroyWindow" }
IsRelease(c) == c \in ReleaseCalls
Releases == SelectSeq(calls, IsRelease)

\* run() returned: startup completed, mainLoop returned and cleanup ran.
RanToCompletion == pc = "return" \/ (pc = "exited" /\ exitStatus = EXIT_SUCCESS)

\* C1: when startup completes and mainLoop returns, the releases cleanup issues
\* are, in this order: one per image view, the swap chain, the logical device,
\* the debug messenger (at most once, and only when validation is enabled), the
\* surface, the instance, the window.
C1_TeardownOrder ==
    RanToCompletion =>
        \E messenger \in { << >>, << "vkDestroyDebugUtilsMessengerEXT" >> } :
            /\ (messenger # << >> => enableValidationLayers)
            /\ Releases = [i \in 1..Len(swapChainImageViews) |-> "vkDestroyImageView"]
                          \o << "vkDestroySwapchainKHR", "vkDestroyDevice" >>
                          \o messenger
                          \o << "vkDestroySurfaceKHR", "vkDestroyInstance",
                                "glfwDestroyWindow" >>

C1_Witness ==
    /\ RanToCompletion
    /\ enableValidationLayers
    /\ Len(swapChainImageViews) >= 2
    /\ Issued("vkDestroyDebugUtilsMessengerEXT")
    /\ Issued("vkDestroyDevice")

\* C2: whenever isDeviceSuitable returns, it returns true exactly if (a) the
\* queue family indices found for the adapter are complete, (b) every required
\* device extension is among the enumerated ones, whatever their order and
\* repetition, and (c) the format list and the present-mode list are both
\* non-empty; when (b) fails no surface query is issued.
C2_Suitability ==
    (call.fn = "isDeviceSuitable" /\ ret.done /\ ~ret.value.thrown) =>
        LET r == call.r
            a == isComplete(findQueueFamilies(r.queueFlags, r.support))
            b == Range(deviceExtensions) \subseteq Range(r.extensions)
            c == r.formats # << >> /\ r.presentModes # << >>
        IN /\ ret.value.value = (a /\ b /\ c)
           /\ ~b => ret.value.queries \cap {"surfaceCapabilities", "surfaceFormats",
                                              "presentModes"} = {}

C2_Witness ==
    /\ call.fn = "isDeviceSuitable" /\ ret.done /\ ~ret.value.thrown
    /\ ret.value.value
    /\ call.r.extensions = << "VK_KHR_portability_subset", "VK_KHR_swapchain" >>
    /\ Len(call.r.queueFlags) = 2

\* C3: pickPhysicalDevice selects the first adapter, in enumeration order, for
\* which isDeviceSuitable is true; when none is enumerated or none is suitable
\* it selects nothing and raises an error.
Suitable(r) == ~isDeviceSuitable(r).thrown /\ isDeviceSuitable(r).value

C3_FirstSuitable ==
    /\ pc = "createLogicalDevice" =>
          /\ physicalDevice \in 1..Len(observed)
          /\ Suitable(observed[physicalDevice])
          /\ \A j \in 1..(physicalDevice - 1) : ~Suitable(observed[j])
    /\ ( /\ pc = "createLogicalDevice" \/ thrower = "pickPhysicalDevice"
         /\ \A j \in 1..Len(observed) : ~Suitable(observed[j]) )
       => (physicalDevice = 0 /\ thrower = "pickPhysicalDevice" /\ pc \in {"catch", "exited"})

C3_Witness ==
    /\ pc = "createLogicalDevice"
    /\ physicalDevice = 1
    /\ Len(observed) = 2
    /\ Suitable(observed[2])

\* C4: chooseSwapExtent takes the framebuffer size, each dimension clamped into
\* the surface's bounds, only when both the width and the height of the current
\* extent are the maximum 32-bit value; otherwise it returns the current extent.
C4_SentinelNeedsBoth ==
    (call.fn = "chooseSwapExtent" /\ ret.done) =>
        LET c == call.capabilities
        IN IF c.currentExtent.width = UINT32_MAX /\ c.currentExtent.height = UINT32_MAX
           THEN ret.value = [width  |-> clamp(U32(call.framebuffer.width),
                                              c.minImageExtent.width,
                                              c.maxImageExtent.width),
                             height |-> clamp(U32(call.framebuffer.height),
                                              c.minImageExtent.height,
                                              c.maxImageExtent.height)]
           ELSE ret.value = c.currentExtent

\* C5: the requested image count is minImageCount + 1 when maxImageCount is 0 or
\* minImageCount + 1 <= maxImageCount, it is maxImageCount when maxImageCount is
\* nonzero and minImageCount + 1 exceeds it, and it is never below minImageCount
\* when minImageCount <= maxImageCount or maxImageCount is 0.
C5_ImageCount ==
    (call.fn = "requestedImageCount" /\ ret.done) =>
        LET lo == call.capabilities.minImageCount
            hi == call.capabilities.maxImageCount
            unbounded == hi = U32(0)
            \* minImageCount + 1 as a number: 2^32 when minImageCount is the maximum
            succFits == lo # UINT32_MAX /\ Le32(Inc32(lo), hi)
            succExceeds == lo = UINT32_MAX \/ Lt32(hi, Inc32(lo))
        IN /\ (unbounded \/ succFits) => (lo # UINT32_MAX /\ ret.value = Inc32(lo))
           /\ (~unbounded /\ succExceeds) => ret.value = hi
           /\ (unbounded \/ Le32(lo, hi)) => Le32(lo, ret.value)

\* C6: a swap-chain request lists exactly the graphics and the present family
\* under concurrent sharing when the two resolved indices differ, and lists no
\* family under exclusive sharing when they are equal; exclusive sharing with a
\* family list never occurs.
C6_SharingMode ==
    createInfo.built =>
        LET indices == findQueueFamilies(observed[1].queueFlags, observed[1].support)
            g == indices.graphicsFamily
            p == indices.presentFamily
        IN /\ isComplete(indices)
           /\ g # p => /\ createInfo.imageSharingMode = "CONCURRENT"
                       /\ createInfo.queueFamilyIndexCount = 2
                       /\ createInfo.pQueueFamilyIndices = << value(g), value(p) >>
           /\ g = p => /\ createInfo.imageSharingMode = "EXCLUSIVE"
                       /\ createInfo.queueFamilyIndexCount = 0
                       /\ createInfo.pQueueFamilyIndices = << >>
           /\ ~(createInfo.imageSharingMode = "EXCLUSIVE"
                /\ createInfo.pQueueFamilyIndices # << >>)

C6_Witness ==
    /\ createInfo.built
    /\ createInfo.imageSharingMode = "CONCURRENT"
    /\ createInfo.pQueueFamilyIndices = << 0, 1 >>

\* C7: for a non-empty format list, chooseSwapChainFormat returns the
\* (B8G8R8A8_SRGB, SRGB_NONLINEAR) pair when it is anywhere in the list, and the
\* first element of the list when it is not.
C7_FormatChoice ==
    (call.fn = "chooseSwapChainFormat" /\ ret.done) =>
        IF \E k \in 1..Len(call.formats) : call.formats[k] = PreferredFormat
        THEN ret.value = PreferredFormat
        ELSE ret.value = call.formats[1]

C7_Witness ==
    /\ call.fn = "chooseSwapChainFormat" /\ ret.done
    /\ Len(call.formats) = 3
    /\ call.formats[1] = [format |-> "B8G8R8A8_SRGB", colorSpace |-> "DISPLAY_P3_NONLINEAR"]
    /\ call.formats[2] = PreferredFormat
    /\ ret.value = PreferredFormat

\* C8: once a platform query has reported failure, startup is aborted with a
\* fatal error: it does not go on with the result of the failed query.
C8_FailedQueryIsFatal ==
    failedQueries # {} => (pc \in {"catch", "exited"} /\ exitStatus # EXIT_SUCCESS)

\* C9: mainLoop is entered only after every startup step succeeded; an error
\* raised by a startup step is not retried, mainLoop is then never entered and
\* the process ends with a nonzero exit status.
Acquired(h) == h \in {"live", "destroyed"}
MainLoopEntered == pc = "mainLoop" \/ Issued("glfwWindowShouldClose")
StartupSucceeded ==
    /\ Acquired(instance)
    /\ Acquired(surface)
    /\ physicalDevice \in 1..Len(adapters)
    /\ Acquired(device)
    /\ has_value(graphicsQueue) /\ has_value(presentQueue)
    /\ Acquired(swapChain)
    /\ Len(swapChainImages) >= 1
    /\ Len(swapChainImageViews) = Len(swapChainImages)
    /\ \A i \in 1..Len(swapChainImageViews) : swapChainImageViews[i] # 0
    /\ shaders = {"vert.spv", "frag.spv"}
    /\ thrower = ""

C9_AllOrNothing ==
    /\ MainLoopEntered => StartupSucceeded
    /\ thrower # "" =>
          /\ pc \in {"catch", "exited"}
          /\ ~MainLoopEntered
          /\ pc = "exited" => (exitStatus = EXIT_FAILURE /\ exitStatus # 0)
    /\ \A c \in { "vkCreateInstance", "glfwCreateWindowSurface", "vkCreateDevice",
                  "vkCreateSwapchainKHR" } : Cardinality(Positions(c)) <= 1

C9_Witness ==
    /\ pc = "exited"
    /\ thrower = "createImageViews"
    /\ Len(swapChainImageViews) = 2
    /\ swapChainImageViews[1] # 0
    /\ exitStatus = EXIT_FAILURE

\* C10: findQueueFamilies returns the lowest index of a graphics family and the
\* lowest index of a family that can present, and scans no family beyond the
\* first one after which both are assigned.
C10_LowestIndices ==
    (call.fn = "findQueueFamilies" /\ ret.done) =>
        LET queueFlags == call.families.queueFlags
            support == call.families.support
            n == Len(queueFlags)
            G == { i \in 0..(n - 1) : queueFlags[i + 1] }
            P == { i \in 0..(n - 1) : support[i + 1] }
            both == { i \in 0..(n - 1) : (\E g \in G : g <= i) /\ (\E p \in P : p <= i) }
        IN /\ ret.value.graphicsFamily = (IF G = {} THEN NoValue ELSE {Min(G)})
           /\ ret.value.presentFamily = (IF P = {} THEN NoValue ELSE {Min(P)})
           /\ ret.value.scanned = (IF both = {} THEN n ELSE Min(both) + 1)

\* C11: when the result of findQueueFamilies is complete, its graphics index is
\* the index of an existing family of the adapter that advertises graphics, and
\* its present index is the index of an existing family, possibly another one,
\* for which the surface-support query answered that it can present.
C11_CompleteIsBacked ==
    (call.fn = "findQueueFamilies" /\ ret.done /\ isComplete(ret.value)) =>
        LET queueFlags == call.families.queueFlags
            support == call.families.support
            n == Len(queueFlags)
            g == value(ret.value.graphicsFamily)
            p == value(ret.value.presentFamily)
        IN /\ g \in 0..(n - 1) /\ queueFlags[g + 1]
           /\ p \in 0..(n - 1) /\ support[p + 1]

\* A complete result whose two indices name different families.
C11_Witness ==
    /\ call.fn = "findQueueFamilies" /\ ret.done
    /\ isComplete(ret.value)
    /\ value(ret.value.graphicsFamily) # value(ret.value.presentFamily)
    /\ call.families.queueFlags[value(ret.value.graphicsFamily) + 1]
    /\ call.families.support[value(ret.value.presentFamily) + 1]

\* createImageViews has returned: run() is at a later step, or ended in one.
ViewsCreated ==
    \/ pc \in {"createGraphicsPipeline", "mainLoop", "cleanup", "return"}
    \/ pc \in {"catch", "exited"} /\ thrower = "createGraphicsPipeline"
    \/ RanToCompletion

\* C12 as stated: in every reachable state of run() the swap-chain image
\* sequence and the image-view sequence have equal length, and the view at
\* index i is a view of the image at index i.
C12_AlwaysAligned ==
    /\ Len(swapChainImageViews) = Len(swapChainImages)
    /\ \A i \in 1..Len(swapChainImageViews) :
          swapChainImageViews[i] # 0 /\ swapChainImageViews[i] = swapChainImages[i]

\* C12, amended: in every reachable state of run() the image-view sequence is
\* empty or as long as the swap-chain image sequence, and every view that has
\* been created, at index i, is a view of the image at index i; it is empty
\* until createImageViews runs, and from the return of createImageViews on,
\* after cleanup included, the lengths are equal and every index has its view.
C12_ViewsFollowImages ==
    /\ Len(swapChainImageViews) \in {0, Len(swapChainImages)}
    /\ \A i \in 1..Len(swapChainImageViews) :
          swapChainImageViews[i] # 0 => swapChainImageViews[i] = swapChainImages[i]
    /\ (~ViewsCreated /\ thrower # "createImageViews") => swapChainImageViews = << >>
    /\ ViewsCreated =>
          /\ Len(swapChainImageViews) = Len(swapChainImages)
          /\ \A i \in 1..Len(swapChainImageViews) :
                swapChainImageViews[i] # 0 /\ swapChainImageViews[i] = swapChainImages[i]

\* cleanup has run over two views, each the view of its image.
C12_Witness ==
    /\ pc = "return"
    /\ Len(swapChainImages) = 2
    /\ swapChainImageViews = swapChainImages
    /\ swapChainImages[1] # swapChainImages[2]

\* C13: vkCreateDevice is issued only when the queue family indices that
\* createLogicalDevice resolves again for the chosen adapter are complete; when
\* they are not, createLogicalDevice throws before issuing the call, and no
\* logical device and no queue handle is obtained.
C13_CompleteBeforeDevice ==
    [][ pc = "createLogicalDevice" =>
          LET r == observed'[1]
              indices == findQueueFamilies(r.queueFlags, r.support)
          IN /\ Len(calls') > Len(calls) => isComplete(indices)
             /\ ~isComplete(indices) =>
                   /\ calls' = calls
                   /\ pc' = "catch" /\ thrower' = "createLogicalDevice"
                   /\ device' = "uninit"
                   /\ graphicsQueue' = NoValue /\ presentQueue' = NoValue ]_vars

\* The chosen adapter answered the second resolution with no family that can
\* present: createLogicalDevice threw and vkCreateDevice was never issued.
C13_Witness ==
    /\ pc = "catch"
    /\ thrower = "createLogicalDevice"
    /\ what = "bad optional access"
    /\ ~isComplete(findQueueFamilies(observed[1].queueFlags, observed[1].support))
    /\ ~Issued("vkCreateDevice")
    /\ device = "uninit"
====
